---- MODULE Spec2Model ----
(***************************************************************************)
(* TypeSpark: the study-session engine of backend/app.py (text            *)
(* segmentation in upload_file, the in-memory session table, next-item    *)
(* delivery and answer submission), and its browser side: the statistics   *)
(* kept by services/statsStorage.js, the API client of services/api.js     *)
(* and the practice page of pages/PracticePage.js.                         *)
(*                                                                         *)
(* Texts are held run-length encoded, so that the thresholds of the code   *)
(* (10, 20, 100, 1000, 2000) keep their values.                            *)
(***************************************************************************)
EXTENDS Integers, Sequences, FiniteSets, TLC

VARIABLES
    sessions,     \* app.py: sessions = {}  (session id -> session dict)
    uuid_count,   \* number of uuid.uuid4() values handed out so far
    pc,           \* per request thread: the handler position it is at
    loc,          \* per request thread: the handler's local variables
    last,         \* the response the step just taken has sent, if any
    served,       \* per session: the bodies of the /next responses, in order
    text,         \* segmentation alone: the raw text of the uploaded file
    study_items,  \* segmentation alone: the items computed from text
    localStorage, \* the browser's localStorage: per key no item or one value
    now,          \* the browser's clock, in ticks
    recorded,     \* the summaries given to recordSession so far, oldest first
    tabs,         \* per open page: where its recordSession call is, and its locals
    call,         \* the api.getNextItem call in progress, and how it ended
    page          \* the PracticePage component: its state, refs and requests

vars == <<sessions, uuid_count, pc, loc, last, served, text, study_items,
          localStorage, now, recorded, tabs, call, page>>
segVars == <<text, study_items>>
clientVars == <<tabs, call, page>>
frontendVars == <<localStorage, now, recorded, clientVars>>

-----------------------------------------------------------------------------
(* Bounds of the model *)

MaxThreads == 2
MaxSessions == 2
MaxSharedSessions == 1
MaxExtraCalls == 1
MaxSegRuns == 3
MaxPages == 2

-----------------------------------------------------------------------------
(* Thresholds of upload_file *)

ShortTextLength == 100
MinParagraphLength == 10
MaxParagraphs == 20
FallbackLength == 2000
MaxContentLength == 1000
TruncatedLength == 1000

-----------------------------------------------------------------------------
(* Run-length encoded texts *)

Min(a, b) == IF a <= b THEN a ELSE b
Max(a, b) == IF a >= b THEN a ELSE b

\* the sum of a sequence of numbers
RECURSIVE SumSeq(_)
SumSeq(s) ==
    IF Len(s) = 0 THEN 0
    ELSE IF Len(s) = 1 THEN s[1]
    ELSE LET h == Len(s) \div 2
         IN  SumSeq(SubSeq(s, 1, h)) + SumSeq(SubSeq(s, h + 1, Len(s)))

\* the running totals of a sequence of numbers
RECURSIVE PrefixSums(_)
PrefixSums(s) ==
    IF Len(s) <= 1 THEN s
    ELSE LET h == Len(s) \div 2
             a == PrefixSums(SubSeq(s, 1, h))
             b == PrefixSums(SubSeq(s, h + 1, Len(s)))
         IN  a \o [i \in 1..Len(b) |-> b[i] + a[Len(a)]]

\* the concatenation of a sequence of sequences
RECURSIVE ConcatAll(_)
ConcatAll(ss) ==
    IF Len(ss) = 0 THEN <<>>
    ELSE IF Len(ss) = 1 THEN ss[1]
    ELSE LET h == Len(ss) \div 2
         IN  ConcatAll(SubSeq(ss, 1, h)) \o ConcatAll(SubSeq(ss, h + 1, Len(ss)))

\* the members of a finite set of numbers, in increasing order
Sorted(S) ==
    [k \in 1..Cardinality(S) |->
        CHOOSE i \in S : Cardinality({j \in S : j <= i}) = k]

\* k >= 1 copies of the character c
Run(c, k) == [ch |-> c, n |-> k]

\* A text is a sequence of stretches [ch |-> c, end |-> e]: its characters at
\* the positions after the end of the stretch before (0 for the first) up to e
\* are all c.  Stretches are not empty and neighbours differ in ch.
TLen(t) == IF t = <<>> THEN 0 ELSE t[Len(t)].end

Start(t, i) == IF i = 1 THEN 0 ELSE t[i - 1].end

Whitespace == {" ", "\n"}

\* neighbouring stretches of one character made one
Merge(t) ==
    LET tagged == [i \in 1..Len(t) |->
                      [r |-> t[i],
                       keep |-> (i = Len(t) \/ t[i + 1].ch # t[i].ch)]]
        kept == SelectSeq(tagged, LAMBDA x : x.keep)
    IN  [i \in 1..Len(kept) |-> kept[i].r]

\* the text of a sequence of runs
Text(runs) ==
    LET ends == PrefixSums([i \in 1..Len(runs) |-> runs[i].n])
    IN  Merge([i \in 1..Len(runs) |-> [ch |-> runs[i].ch, end |-> ends[i]]])

Shift(t, d) == [i \in 1..Len(t) |-> [ch |-> t[i].ch, end |-> t[i].end + d]]

\* Python s + t
Concat(s, t) == Merge(s \o Shift(t, TLen(s)))

\* Python s[:k]: the stretches that start before position k, the last cut at k
Take(t, k) ==
    [i \in 1..Cardinality({j \in 1..Len(t) : Start(t, j) < k}) |->
        [ch |-> t[i].ch, end |-> Min(t[i].end, k)]]

\* the stretches i..j of t as a text of their own
Slice(t, i, j) == Shift(SubSeq(t, i, j), 0 - Start(t, i))

\* Python s.strip()
Strip(t) ==
    LET solid == {i \in 1..Len(t) : t[i].ch \notin Whitespace} IN
    IF solid = {} THEN <<>>
    ELSE Slice(t, CHOOSE i \in solid : \A j \in solid : i <= j,
                  CHOOSE i \in solid : \A j \in solid : i >= j)

\* Python s.split('\n\n'): the separators are found left to right, so a
\* stretch of k >= 2 newlines holds k \div 2 separators, which bound
\* (k \div 2) - 1 empty pieces, and leaves k % 2 newlines at the front of the
\* piece that follows.
Split(t) ==
    LET width(i) == t[i].end - Start(t, i)
        seps == Sorted({i \in 1..Len(t) : t[i].ch = "\n" /\ width(i) >= 2})
        m == Len(seps)
        from(k) == IF k = 0 THEN 1 ELSE seps[k] + 1
        to(k) == IF k = m THEN Len(t) ELSE seps[k + 1] - 1
        left(k) == IF k >= 1 /\ width(seps[k]) % 2 = 1
                   THEN Text(<<Run("\n", 1)>>) ELSE <<>>
        empties(k) == [i \in 1..((width(seps[k]) \div 2) - 1) |-> <<>>]
        piece(k) == IF from(k) > to(k) THEN left(k)
                    ELSE Concat(left(k), Slice(t, from(k), to(k)))
    IN  <<piece(0)>> \o ConcatAll([k \in 1..m |-> Append(empties(k), piece(k))])

\* [p.strip() for p in text.split('\n\n') if p.strip()]
paragraphs(t) ==
    LET pieces == Split(t) IN
    SelectSeq([i \in 1..Len(pieces) |-> Strip(pieces[i])], LAMBDA p : p # <<>>)

\* A string literal of the code, given character by character.
Chars(s) == Text([i \in 1..Len(s) |-> Run(s[i], 1)])

\* '... (content truncated for performance)'
TruncationMarker ==
    Chars(<<".", ".", ".", " ", "(", "c", "o", "n", "t", "e", "n", "t", " ", "t",
            "r", "u", "n", "c", "a", "t", "e", "d", " ", "f", "o", "r", " ", "p",
            "e", "r", "f", "o", "r", "m", "a", "n", "c", "e", ")">>)

\* 'No content could be extracted. Here is a sample text.'
SampleContent ==
    Chars(<<"N", "o", " ", "c", "o", "n", "t", "e", "n", "t", " ", "c", "o", "u",
            "l", "d", " ", "b", "e", " ", "e", "x", "t", "r", "a", "c", "t", "e",
            "d", ".", " ", "H", "e", "r", "e", " ", "i", "s", " ", "a", " ", "s",
            "a", "m", "p", "l", "e", " ", "t", "e", "x", "t", ".">>)

\* 'The quick brown fox jumps over the lazy dog. ...'
QuickStartContent1 ==
    Chars(<<"T", "h", "e", " ", "q", "u", "i", "c", "k", " ", "b", "r", "o", "w",
            "n", " ", "f", "o", "x", " ", "j", "u", "m", "p", "s", " ", "o", "v",
            "e", "r", " ", "t", "h", "e", " ", "l", "a", "z", "y", " ", "d", "o",
            "g", ".", " ", "T", "h", "i", "s", " ", "i", "s", " ", "a", " ", "s",
            "i", "m", "p", "l", "e", " ", "s", "e", "n", "t", "e", "n", "c", "e",
            " ", "f", "o", "r", " ", "t", "e", "s", "t", "i", "n", "g", " ", "t",
            "y", "p", "i", "n", "g", " ", "s", "p", "e", "e", "d", " ", "w", "i",
            "t", "h", "o", "u", "t", " ", "n", "e", "e", "d", "i", "n", "g", " ",
            "t", "o", " ", "u", "p", "l", "o", "a", "d", " ", "a", " ", "f", "i",
            "l", "e", ".">>)

\* 'TypeSpark is a typing practice application ...'
QuickStartContent2 ==
    Chars(<<"T", "y", "p", "e", "S", "p", "a", "r", "k", " ", "i", "s", " ", "a",
            " ", "t", "y", "p", "i", "n", "g", " ", "p", "r", "a", "c", "t", "i",
            "c", "e", " ", "a", "p", "p", "l", "i", "c", "a", "t", "i", "o", "n",
            " ", "d", "e", "s", "i", "g", "n", "e", "d", " ", "t", "o", " ", "h",
            "e", "l", "p", " ", "y", "o", "u", " ", "i", "m", "p", "r", "o", "v",
            "e", " ", "y", "o", "u", "r", " ", "t", "y", "p", "i", "n", "g", " ",
            "s", "k", "i", "l", "l", "s", " ", "w", "h", "i", "l", "e", " ", "s",
            "t", "u", "d", "y", "i", "n", "g", " ", "c", "o", "n", "t", "e", "n",
            "t", " ", "f", "r", "o", "m", " ", "y", "o", "u", "r", " ", "d", "o",
            "c", "u", "m", "e", "n", "t", "s", ".">>)

\* 'Practice makes perfect. The more you type, ...'
QuickStartContent3 ==
    Chars(<<"P", "r", "a", "c", "t", "i", "c", "e", " ", "m", "a", "k", "e", "s",
            " ", "p", "e", "r", "f", "e", "c", "t", ".", " ", "T", "h", "e", " ",
            "m", "o", "r", "e", " ", "y", "o", "u", " ", "t", "y", "p", "e", ",",
            " ", "t", "h", "e", " ", "f", "a", "s", "t", "e", "r", " ", "a", "n",
            "d", " ", "m", "o", "r", "e", " ", "a", "c", "c", "u", "r", "a", "t",
            "e", " ", "y", "o", "u", " ", "w", "i", "l", "l", " ", "b", "e", "c",
            "o", "m", "e", ".", " ", "T", "r", "y", " ", "t", "o", " ", "f", "o",
            "c", "u", "s", " ", "o", "n", " ", "a", "c", "c", "u", "r", "a", "c",
            "y", " ", "f", "i", "r", "s", "t", ",", " ", "t", "h", "e", "n", " ",
            "s", "p", "e", "e", "d", ".">>)

-----------------------------------------------------------------------------
(* Study items and the segmentation of upload_file *)

Item(id, prompt, content, context) ==
    [id |-> id, prompt |-> prompt, content |-> content, type |-> "text",
     context |-> context]

\* 'Type this text:'
TextPrompt == <<"Type this text:">>

\* f"Type this paragraph ({i+1}/{min(len(paragraphs), 20)}):", i counted from 1
ParagraphPrompt(i, total) == <<"Type this paragraph (", i, "/", total, "):">>

\* a test that keeps a paragraph of just the minimum length
IsMeaningfulFromMinimum(paragraph) == TLen(paragraph) >= MinParagraphLength

\* len(paragraph) > 10
IsMeaningful(paragraph) == TLen(paragraph) > MinParagraphLength

\* The loop over enumerate(paragraphs[:20]): the items of the paragraphs kept,
\* in order; ids are uuid4 values, the k-th one made is base + k.
ParagraphItems(ps, base) ==
    LET first == SubSeq(ps, 1, Min(Len(ps), MaxParagraphs))
        keep == {i \in 1..Len(first) : IsMeaningful(first[i])}
        nth(k) == CHOOSE i \in keep : Cardinality({j \in keep : j <= i}) = k
    IN  [k \in 1..Cardinality(keep) |->
            Item(base + k,
                 ParagraphPrompt(nth(k), Min(Len(ps), MaxParagraphs)),
                 first[nth(k)], "Custom Text")]

\* a text branch whose fallback takes the text without the whitespace around it
TextItemsStrippedFallback(t, base) ==
    LET ps == paragraphs(t) IN
    IF ps = <<>> \/ TLen(t) < ShortTextLength
    THEN <<Item(base + 1, TextPrompt, t, "Custom Text")>>
    ELSE IF ParagraphItems(ps, base) # <<>>
         THEN ParagraphItems(ps, base)
         ELSE <<Item(base + 1, TextPrompt, Take(Strip(t), FallbackLength),
                     "Custom Text")>>

\* The text branch of upload_file: study_items of a decoded text file.
TextItems(t, base) ==
    LET ps == paragraphs(t) IN
    IF ps = <<>> \/ TLen(t) < ShortTextLength
    THEN <<Item(base + 1, TextPrompt, t, "Custom Text")>>
    ELSE IF ParagraphItems(ps, base) # <<>>
         THEN ParagraphItems(ps, base)
         ELSE <<Item(base + 1, TextPrompt, Take(t, FallbackLength), "Custom Text")>>

\* "Ensure we have at least one study item"
EnsureItems(items, base) ==
    IF items = <<>>
    THEN <<Item(base + 1, TextPrompt, SampleContent, "Sample")>>
    ELSE items

\* a truncation that appends the marker and cuts nothing
TruncateWhole(content) ==
    IF TLen(content) > MaxContentLength
    THEN Concat(content, TruncationMarker)
    ELSE content

\* "Ensure item content isn't too long"
Truncate(content) ==
    IF TLen(content) > MaxContentLength
    THEN Concat(Take(content, TruncatedLength), TruncationMarker)
    ELSE content

TruncateItems(items) ==
    [k \in 1..Len(items) |-> [items[k] EXCEPT !.content = Truncate(@)]]

\* segmentation of a text file as upload_file does it, ids from base + 1 on
SegmentText(t, base) == TruncateItems(EnsureItems(TextItems(t, base), base))

-----------------------------------------------------------------------------
(* Scoring of submit_answer *)

\* sum(1 for a, b in zip(s, t) if a == b): the positions both texts have and
\* agree on, counted stretch against stretch
Matches(s, t) ==
    LET overlap(i, j) ==
            IF s[i].ch = t[j].ch
            THEN Max(0, Min(s[i].end, t[j].end) - Max(Start(s, i), Start(t, j)))
            ELSE 0
    IN  SumSeq([i \in 1..Len(s) |-> SumSeq([j \in 1..Len(t) |-> overlap(i, j)])])

\* len(s.split()): the maximal blocks of characters that are not whitespace
Words(s) ==
    Cardinality({i \in 1..Len(s) :
        /\ s[i].ch \notin Whitespace
        /\ (i = 1 \/ s[i - 1].ch \in Whitespace)})

CompareLimit == 1000
DefaultTimeTaken == 60

Ratio(a, b) == [num |-> a, den |-> b]

\* an accuracy counted over the whole expected text
AccuracyOverExpected(expected, user_answer) ==
    LET max_compare_length ==
            Min(Min(TLen(expected), TLen(user_answer)), CompareLimit)
        matches == Matches(Take(user_answer, max_compare_length),
                           Take(expected, max_compare_length))
    IN  IF expected # <<>>
        THEN Ratio(matches, TLen(expected))
        ELSE Ratio(0, 1)

\* an accuracy with no limit on the length compared
AccuracyUnlimited(expected, user_answer) ==
    LET max_compare_length == Min(TLen(expected), TLen(user_answer))
        matches == Matches(Take(user_answer, max_compare_length),
                           Take(expected, max_compare_length))
        window == TLen(Take(expected, max_compare_length))
    IN  IF expected # <<>>
        THEN Ratio(matches, IF window >= 1 THEN window ELSE 1)
        ELSE Ratio(0, 1)

Accuracy(expected, user_answer) ==
    LET max_compare_length ==
            Min(Min(TLen(expected), TLen(user_answer)), CompareLimit)
        matches == Matches(Take(user_answer, max_compare_length),
                           Take(expected, max_compare_length))
        window == TLen(Take(expected, max_compare_length))
    IN  IF expected # <<>>
        THEN Ratio(matches, IF window >= 1 THEN window ELSE 1)
        ELSE Ratio(0, 1)

\* a speed computed for every time but zero
WpmAnyTime(expected, time_taken) ==
    IF time_taken # 0 THEN Ratio(Words(expected) * 60, time_taken)
    ELSE Ratio(0, 1)

Wpm(expected, time_taken) ==
    IF time_taken > 0 THEN Ratio(Words(expected) * 60, time_taken)
    ELSE Ratio(0, 1)

-----------------------------------------------------------------------------
(* The browser's storage, services/statsStorage.js *)

STORAGE_KEY == "typespark_stats"
SESSIONS_KEY == "typespark_sessions"

\* localStorage.getItem(key) is null: the item is the empty sequence; an item
\* that is there is the sequence of its one value
NoItem == <<>>

\* the pages (tabs) of the browser that share the storage
Pages == 1..MaxPages

\* a page that is not inside recordSession
NotRecording == [pc |-> "idle"]

\* no api.getNextItem call has been made
NoCall == [pc |-> "none"]

\* the PracticePage component is not mounted
NotMounted == [mounted |-> FALSE]

\* a browser that has stored nothing, its clock at the start of a day
InitStorage ==
    /\ localStorage = [k \in {STORAGE_KEY, SESSIONS_KEY} |-> NoItem]
    /\ now = 0
    /\ recorded = <<>>
    /\ tabs = [p \in Pages |-> NotRecording]
    /\ call = NoCall
    /\ page = NotMounted

-----------------------------------------------------------------------------
(* The session table and the request handlers *)

Threads == 1..MaxThreads

\* A session id no uuid4 call has returned.
UnknownId == 0

Idle == [op |-> "none"]

\* the k-th uuid4 value a handler draws: fresh, never handed out before
uuid4(k) == uuid_count + k

NewSession(items, filename) ==
    [items |-> items, current_index |-> 0, total_items |-> Len(items),
     filename |-> filename]

\* a table that holds the new session alone
StoreSessionAlone(session_id, session) ==
    [s \in {session_id} |-> session]

\* sessions[session_id] = session
StoreSession(session_id, session) ==
    [s \in DOMAIN sessions \cup {session_id} |->
        IF s = session_id THEN session ELSE sessions[s]]

\* the ids of the items held by the sessions of the table
ItemIds ==
    UNION {{sessions[s].items[k].id : k \in 1..Len(sessions[s].items)} :
           s \in DOMAIN sessions}

\* a server that takes up a request only when no other is being handled
AcceptsAlone(t) == t = 1 /\ \A u \in Threads : pc[u] = "idle"

\* A request is taken up by an idle worker thread; the workers are alike, so
\* it is the first of the idle ones.
Accepts(t) == pc[t] = "idle" /\ \A u \in Threads : pc[u] = "idle" => t <= u

Response(op, sid, args, status, body) ==
    [op |-> op, sid |-> sid, args |-> args, status |-> status, body |-> body]

NoArgs == [none |-> TRUE]

NoResponse == Response("none", UnknownId, NoArgs, 0, [error |-> ""])

\* the handler of thread t returns: jsonify(body), status
Respond(t, op, sid, args, status, body) ==
    /\ last' = Response(op, sid, args, status, body)
    /\ pc' = [pc EXCEPT ![t] = "idle"]
    /\ loc' = [loc EXCEPT ![t] = Idle]

\* a /next response on an existing session is appended to its record
Served(sid, status, item_id, current, total) ==
    served' = [served EXCEPT ![sid] = Append(@,
        [status |-> status, item_id |-> item_id, current |-> current,
         total |-> total])]

\* The files a client uploads.  A file name is the sequence of its parts
\* between dots: '.' in filename is Len(filename) > 1 and
\* filename.rsplit('.', 1)[1] is the last part.
ALLOWED_EXTENSIONS == {"pdf", "txt"}

allowed_file(filename) ==
    Len(filename) > 1 /\ filename[Len(filename)] \in ALLOWED_EXTENSIONS

UploadTexts ==
    {<<>>,
     Text(<<Run("a", 60), Run("\n", 2), Run("b", 60)>>)}

TextFiles == {[filename |-> <<"notes", "txt">>, data |-> t] : t \in UploadTexts}
\* A PDF file stands for the items parser.extract_items() returns for it; the
\* parser is outside this program, and the PDF here is one it finds no item in.
PdfFiles == {[filename |-> <<"paper", "pdf">>, data |-> <<>>]}
OtherFiles == {[filename |-> f, data |-> <<>>] : f \in {<<"">>, <<"photo", "png">>}}

\* POST /api/upload with a file part
upload_file(t, file, limit) ==
    /\ Accepts(t)
    /\ UNCHANGED <<segVars, frontendVars>>
    /\ IF file.filename = <<"">>
       THEN /\ Respond(t, "upload", UnknownId, NoArgs, 400,
                    [error |-> "No selected file"])
            /\ UNCHANGED <<sessions, uuid_count, served>>
       ELSE IF ~allowed_file(file.filename)
       THEN /\ Respond(t, "upload", UnknownId, NoArgs, 400,
                    [error |-> "Invalid file type"])
            /\ UNCHANGED <<sessions, uuid_count, served>>
       ELSE /\ Cardinality(DOMAIN sessions) < limit
            /\ LET extracted ==
                       IF file.filename[Len(file.filename)] = "pdf"
                       THEN file.data
                       ELSE TextItems(file.data, uuid_count)
                   items == TruncateItems(EnsureItems(extracted, uuid_count))
                   session_id == uuid4(Len(items) + 1)
               IN  /\ sessions' = StoreSession(session_id,
                                      NewSession(items, file.filename))
                   /\ uuid_count' = session_id
                   /\ served' = [s \in DOMAIN served \cup {session_id} |->
                                    IF s = session_id THEN <<>> ELSE served[s]]
                   /\ Respond(t, "upload", session_id, NoArgs, 200,
                          [session_id |-> session_id,
                           filename |-> file.filename,
                           items_count |-> Len(items)])

\* POST /api/upload without a file part
upload_no_file(t) ==
    /\ Accepts(t)
    /\ Respond(t, "upload", UnknownId, NoArgs, 400, [error |-> "No file part"])
    /\ UNCHANGED <<sessions, uuid_count, served, segVars, frontendVars>>

\* 'Type this paragraph:'
QuickStartPrompt == <<"Type this paragraph:">>

\* GET /api/quickstart
quickstart(t, limit) ==
    /\ Accepts(t)
    /\ Cardinality(DOMAIN sessions) < limit
    /\ UNCHANGED <<segVars, frontendVars>>
    /\ LET items ==
               <<Item(uuid4(1), QuickStartPrompt, QuickStartContent1, "Quick Start"),
                 Item(uuid4(2), QuickStartPrompt, QuickStartContent2, "Quick Start"),
                 Item(uuid4(3), QuickStartPrompt, QuickStartContent3, "Quick Start")>>
           session_id == uuid4(4)
       IN  /\ sessions' = StoreSession(session_id,
                              NewSession(items, <<"quickstart", "txt">>))
           /\ uuid_count' = session_id
           /\ served' = [s \in DOMAIN served \cup {session_id} |->
                            IF s = session_id THEN <<>> ELSE served[s]]
           /\ Respond(t, "quickstart", session_id, NoArgs, 200,
                  [session_id |-> session_id,
                   filename |-> <<"quickstart", "txt">>,
                   items_count |-> Len(items)])

\* GET /api/session/<session_id>
get_session(t, session_id) ==
    /\ Accepts(t)
    /\ UNCHANGED <<sessions, uuid_count, served, segVars, frontendVars>>
    /\ IF session_id \notin DOMAIN sessions
       THEN Respond(t, "session", session_id, NoArgs, 404,
                    [error |-> "Session not found"])
       ELSE Respond(t, "session", session_id, NoArgs, 200, sessions[session_id])

\* the /next requests of session sid that are past their first step
NextInFlight(sid) ==
    Cardinality({u \in Threads : pc[u] # "idle" /\ loc[u].op = "next"
                                   /\ loc[u].sid = sid})

\* if session['current_index'] >= session['total_items']
Exhausted(session) == session.current_index >= session.total_items

\* GET /api/session/<session_id>/next, up to the test of current_index
get_next_item(t, session_id) ==
    /\ Accepts(t)
    /\ UNCHANGED <<sessions, uuid_count, segVars, frontendVars>>
    /\ IF session_id \notin DOMAIN sessions
       THEN /\ Respond(t, "next", session_id, NoArgs, 404,
                       [error |-> "Session not found"])
            /\ UNCHANGED served
       ELSE LET session == sessions[session_id] IN
            /\ Len(served[session_id]) + NextInFlight(session_id)
                   < session.total_items + MaxExtraCalls
            /\ IF Exhausted(session)
               THEN /\ Respond(t, "next", session_id, NoArgs, 400,
                           [error |-> "No more items in session",
                            session_completed |-> TRUE])
                    /\ Served(session_id, 400, UnknownId,
                              session.current_index, session.total_items)
               ELSE /\ pc' = [pc EXCEPT ![t] = "next_item"]
                    /\ loc' = [loc EXCEPT ![t] =
                                  [op |-> "next", sid |-> session_id]]
                    /\ last' = NoResponse
                    /\ UNCHANGED served

\* item = session['items'][session['current_index']]
next_item(t) ==
    /\ pc[t] = "next_item"
    /\ UNCHANGED <<sessions, uuid_count, segVars, frontendVars>>
    /\ LET session == sessions[loc[t].sid] IN
       IF session.current_index >= Len(session.items)
       THEN \* IndexError, caught by the handler's except clause
            /\ Respond(t, "next", loc[t].sid, NoArgs, 500,
                       [error |-> "Server error: list index out of range"])
            /\ Served(loc[t].sid, 500, UnknownId,
                      session.current_index, session.total_items)
       ELSE /\ pc' = [pc EXCEPT ![t] = "next_load"]
            /\ loc' = [loc EXCEPT ![t] =
                          [op |-> "next", sid |-> loc[t].sid,
                           item |-> session.items[session.current_index + 1]]]
            /\ last' = NoResponse
            /\ UNCHANGED served

\* session['current_index'] += 1, the read
next_load(t) ==
    /\ pc[t] = "next_load"
    /\ UNCHANGED <<sessions, uuid_count, served, segVars, frontendVars>>
    /\ last' = NoResponse
    /\ pc' = [pc EXCEPT ![t] = "next_store"]
    /\ loc' = [loc EXCEPT ![t] =
                  [op |-> "next", sid |-> loc[t].sid, item |-> loc[t].item,
                   index |-> sessions[loc[t].sid].current_index]]

\* an increment that passes over an item
AdvanceSkipping(index) == index + 2

\* the value session['current_index'] += 1 writes, from the value it read
Advance(index) == index + 1

\* session['current_index'] += 1, the write
next_store(t) ==
    /\ pc[t] = "next_store"
    /\ UNCHANGED <<uuid_count, served, segVars, frontendVars>>
    /\ last' = NoResponse
    /\ sessions' = [sessions EXCEPT
                       ![loc[t].sid].current_index = Advance(loc[t].index)]
    /\ pc' = [pc EXCEPT ![t] = "next_resp"]
    /\ loc' = [loc EXCEPT ![t] =
                  [op |-> "next", sid |-> loc[t].sid, item |-> loc[t].item]]

\* return jsonify({'item': item, 'progress': {...}})
next_resp(t) ==
    /\ pc[t] = "next_resp"
    /\ UNCHANGED <<sessions, uuid_count, segVars, frontendVars>>
    /\ LET session == sessions[loc[t].sid] IN
       /\ Respond(t, "next", loc[t].sid, NoArgs, 200,
              [item |-> loc[t].item,
               progress |-> [current |-> session.current_index,
                             total |-> session.total_items]])
       /\ Served(loc[t].sid, 200, loc[t].item.id,
                 session.current_index, session.total_items)

\* The JSON bodies a client posts to /submit: a record of the keys present.
Answers == {Text(<<Run("a", 30), Run("c", 30)>>)}
FullBodies == [item_id : ItemIds \cup {UnknownId}, answer : Answers, time_taken : {0}]
UntimedBodies == [item_id : ItemIds \cup {UnknownId}, answer : Answers]
PartialBodies == [answer : Answers] \cup [item_id : {UnknownId}]
EmptyBody == [k \in {} |-> 0]

\* a search that keeps the last item looked at when none has the id
FindItemOrLast(items, item_id) ==
    IF SelectSeq(items, LAMBDA i : i.id = item_id) = <<>> /\ items # <<>>
    THEN <<items[Len(items)]>>
    ELSE SelectSeq(items, LAMBDA i : i.id = item_id)

\* for i in session['items']: if i['id'] == item_id: item = i; break
FindItem(items, item_id) == SelectSeq(items, LAMBDA i : i.id = item_id)

\* data.get('time_taken', 60)
TimeTaken(data) ==
    IF "time_taken" \in DOMAIN data THEN data.time_taken ELSE DefaultTimeTaken

\* a result whose speed counts the words typed
ResultTypedWords(item, data) ==
    [item_id |-> data.item_id,
     accuracy |-> Accuracy(item.content, data.answer),
     wpm |-> Wpm(data.answer, TimeTaken(data)),
     time_taken |-> TimeTaken(data)]

Result(item, data) ==
    [item_id |-> data.item_id,
     accuracy |-> Accuracy(item.content, data.answer),
     wpm |-> Wpm(item.content, TimeTaken(data)),
     time_taken |-> TimeTaken(data)]

\* a submit that validates the body before it looks the session up
SubmitResponseBodyFirst(session_id, data) ==
    IF \/ DOMAIN data = {}
       \/ "answer" \notin DOMAIN data
       \/ "item_id" \notin DOMAIN data
    THEN [status |-> 400, body |-> [error |-> "Missing answer or item_id"]]
    ELSE IF session_id \notin DOMAIN sessions
    THEN [status |-> 404, body |-> [error |-> "Session not found"]]
    ELSE LET session == sessions[session_id]
             found == FindItem(session.items, data.item_id)
         IN  IF found = <<>>
             THEN [status |-> 404, body |-> [error |-> "Item not found"]]
             ELSE [status |-> 200,
                   body |-> [result |-> Result(Head(found), data),
                             progress |-> [current |-> session.current_index,
                                           total |-> session.total_items]]]

\* a submit that refuses answers once the session has served its last item
SubmitResponseUntilExhausted(session_id, data) ==
    IF session_id \notin DOMAIN sessions
    THEN [status |-> 404, body |-> [error |-> "Session not found"]]
    ELSE IF \/ DOMAIN data = {}
            \/ "answer" \notin DOMAIN data
            \/ "item_id" \notin DOMAIN data
    THEN [status |-> 400, body |-> [error |-> "Missing answer or item_id"]]
    ELSE LET session == sessions[session_id]
             found == FindItem(session.items, data.item_id)
         IN  IF Exhausted(session)
             THEN [status |-> 400, body |-> [error |-> "No more items in session"]]
             ELSE IF found = <<>>
             THEN [status |-> 404, body |-> [error |-> "Item not found"]]
             ELSE [status |-> 200,
                   body |-> [result |-> Result(Head(found), data),
                             progress |-> [current |-> session.current_index,
                                           total |-> session.total_items]]]

\* what submit_answer returns: the status and the body
SubmitResponse(session_id, data) ==
    IF session_id \notin DOMAIN sessions
    THEN [status |-> 404, body |-> [error |-> "Session not found"]]
    ELSE IF \/ DOMAIN data = {}
            \/ "answer" \notin DOMAIN data
            \/ "item_id" \notin DOMAIN data
    THEN [status |-> 400, body |-> [error |-> "Missing answer or item_id"]]
    ELSE LET session == sessions[session_id]
             found == FindItem(session.items, data.item_id)
         IN  IF found = <<>>
             THEN [status |-> 404, body |-> [error |-> "Item not found"]]
             ELSE [status |-> 200,
                   body |-> [result |-> Result(Head(found), data),
                             progress |-> [current |-> session.current_index,
                                           total |-> session.total_items]]]

\* a submit that moves the session on when the answer is scored
submit_answer_advancing(t, session_id, data) ==
    /\ Accepts(t)
    /\ UNCHANGED <<uuid_count, served, segVars, frontendVars>>
    /\ sessions' =
           IF SubmitResponse(session_id, data).status = 200
           THEN [sessions EXCEPT ![session_id].current_index = @ + 1]
           ELSE sessions
    /\ Respond(t, "submit", session_id, data,
               SubmitResponse(session_id, data).status,
               SubmitResponse(session_id, data).body)

\* POST /api/session/<session_id>/submit.  The handler reads the table's
\* changing state in one place, session['current_index'] for the response
\* (items and total_items are fixed when the session is stored, and sessions
\* are never removed), so it is one step, taken at that read.
submit_answer(t, session_id, data) ==
    /\ Accepts(t)
    /\ UNCHANGED <<sessions, uuid_count, served, segVars, frontendVars>>
    /\ Respond(t, "submit", session_id, data,
               SubmitResponse(session_id, data).status,
               SubmitResponse(session_id, data).body)

-----------------------------------------------------------------------------
(* The server: request threads over the shared session table *)

SessionIdArgs == DOMAIN sessions \cup {UnknownId}

\* limit: the sessions the table may come to hold
Step(t, limit) ==
    \/ \E file \in TextFiles : upload_file(t, file, limit)
    \/ \E file \in PdfFiles : upload_file(t, file, limit)
    \/ \E file \in OtherFiles : upload_file(t, file, limit)
    \/ upload_no_file(t)
    \/ quickstart(t, limit)
    \/ \E sid \in SessionIdArgs : get_session(t, sid)
    \/ \E sid \in SessionIdArgs : get_next_item(t, sid)
    \/ next_item(t)
    \/ next_load(t)
    \/ next_store(t)
    \/ next_resp(t)
    \/ \E sid \in SessionIdArgs : \E data \in FullBodies : submit_answer(t, sid, data)
    \/ \E sid \in SessionIdArgs : \E data \in UntimedBodies : submit_answer(t, sid, data)
    \/ \E sid \in SessionIdArgs : \E data \in PartialBodies : submit_answer(t, sid, data)
    \/ \E sid \in SessionIdArgs : submit_answer(t, sid, EmptyBody)

Init ==
    /\ sessions = [s \in {} |-> 0]
    /\ uuid_count = 0
    /\ pc = [t \in Threads |-> "idle"]
    /\ loc = [t \in Threads |-> Idle]
    /\ last = NoResponse
    /\ served = [s \in {} |-> 0]
    /\ text = <<>>
    /\ study_items = <<>>
    /\ InitStorage

\* The threaded server: the steps of the requests in flight interleave.
Next == \E t \in Threads : Step(t, MaxSharedSessions)

Spec == Init /\ [][Next]_vars

\* One caller at a time: a request runs to its response before the next starts.
NextSeq ==
    \E t \in Threads :
        (\A u \in Threads \ {t} : pc[u] = "idle") /\ Step(t, MaxSessions)

SpecSeq == Init /\ [][NextSeq]_vars

\* The threaded server with two sessions in its table, each made by the upload
\* of the text of two paragraphs, and /next and /submit requests on them.
InitTwo ==
    /\ \E t \in UploadTexts \ {<<>>} :
          LET first == SegmentText(t, 0)
              first_id == Len(first) + 1
              second == SegmentText(t, first_id)
              second_id == first_id + Len(second) + 1
          IN  /\ sessions = [s \in {first_id, second_id} |->
                                IF s = first_id
                                THEN NewSession(first, <<"notes", "txt">>)
                                ELSE NewSession(second, <<"notes", "txt">>)]
              /\ uuid_count = second_id
              /\ served = [s \in {first_id, second_id} |-> <<>>]
    /\ pc = [t \in Threads |-> "idle"]
    /\ loc = [t \in Threads |-> Idle]
    /\ last = NoResponse
    /\ text = <<>>
    /\ study_items = <<>>
    /\ InitStorage

NextTwo ==
    \E t \in Threads :
        \/ \E sid \in DOMAIN sessions : get_next_item(t, sid)
        \/ next_item(t)
        \/ next_load(t)
        \/ next_store(t)
        \/ next_resp(t)
        \/ \E sid \in DOMAIN sessions : \E data \in FullBodies :
               submit_answer(t, sid, data)

SpecTwo == InitTwo /\ [][NextTwo]_vars

-----------------------------------------------------------------------------
(* The segmentation on its own: thread 1 has read a text file (with open(...)
   as f: text = f.read()) and cuts it into items *)

SegWidths == {1, 2, 3, 11, 100, 1001, 2001}
SegCharacters == {"a", " ", "\n"}

SegRuns == {Run(c, k) : c \in SegCharacters, k \in SegWidths}

\* the texts of at most MaxSegRuns runs, neighbours of different characters
SegTexts ==
    {Text(runs) : runs \in
        {r \in UNION {[1..k -> SegRuns] : k \in 0..MaxSegRuns} :
            \A i \in 1..(Len(r) - 1) : r[i].ch # r[i + 1].ch}}

InitSeg ==
    /\ sessions = [s \in {} |-> 0]
    /\ uuid_count = 0
    /\ pc = [t \in Threads |-> IF t = 1 THEN "read" ELSE "idle"]
    /\ loc = [t \in Threads |-> Idle]
    /\ last = NoResponse
    /\ served = [s \in {} |-> 0]
    /\ text \in SegTexts
    /\ study_items = <<>>
    /\ InitStorage

\* the text branch of upload_file up to the truncation of the items
segment ==
    /\ pc[1] = "read"
    /\ study_items' = SegmentText(text, uuid_count)
    /\ pc' = [pc EXCEPT ![1] = "truncated"]
    /\ UNCHANGED <<text, sessions, uuid_count, loc, last, served, frontendVars>>

SpecSeg == InitSeg /\ [][segment]_vars

-----------------------------------------------------------------------------
(* The segmentation of texts of many paragraphs *)

MaxParCount == 22
MaxLongPars == 2

\* the paragraph at position i of a text whose paragraphs at the positions of
\* long are longer than MinParagraphLength; when huge, the first of them is
\* longer than MaxContentLength too
ParRun(i, long, huge) ==
    IF i \notin long THEN Run("a", MinParagraphLength)
    ELSE IF huge /\ \A j \in long : i <= j THEN Run("a", MaxContentLength + 1)
    ELSE Run("a", MinParagraphLength + i)

\* n paragraphs with a blank line between neighbours
ParText(n, long, huge) ==
    Text([k \in 1..(2 * n - 1) |->
            IF k % 2 = 1 THEN ParRun((k + 1) \div 2, long, huge)
            ELSE Run("\n", 2)])

ParTexts ==
    {ParText(n, long, huge) :
        n \in 1..MaxParCount,
        long \in {l \in SUBSET (1..MaxParCount) : Cardinality(l) <= MaxLongPars}
                     \cup {1..MaxParCount},
        huge \in BOOLEAN}

InitPar ==
    /\ sessions = [s \in {} |-> 0]
    /\ uuid_count = 0
    /\ pc = [t \in Threads |-> IF t = 1 THEN "read" ELSE "idle"]
    /\ loc = [t \in Threads |-> Idle]
    /\ last = NoResponse
    /\ served = [s \in {} |-> 0]
    /\ text \in ParTexts
    /\ study_items = <<>>
    /\ InitStorage

SpecPar == InitPar /\ [][segment]_vars

-----------------------------------------------------------------------------
(* The scoring on its own: one uploaded text file, answers submitted to it *)

ScoreTexts ==
    {<<>>,
     Text(<<Run("a", 3)>>),
     Text(<<Run(" ", 2), Run("a", 5)>>),
     Text(<<Run("a", 4), Run(" ", 1), Run("b", 3), Run("\n", 1), Run("c", 2)>>),
     Text(<<Run("a", 600), Run(" ", 1), Run("b", 399)>>),
     Text(<<Run("a", 1001)>>)}

\* time_taken of a posted body, in seconds
ScoreTimes == {0 - 5, 0, 1, 45, 60}

\* the answers typed for a content: the content, the content and more, a part
\* of it, its first character, the content after a wrong character, nothing,
\* and a long answer
ScoreAnswers(content) ==
    {content,
     Concat(content, Text(<<Run("z", 2)>>)),
     Take(content, TLen(content) \div 2),
     Take(content, 1),
     Concat(Text(<<Run("z", 1)>>), content),
     <<>>,
     Text(<<Run("a", 1200)>>)}

\* the table after the upload of one text file
InitScore ==
    /\ \E t \in ScoreTexts :
          LET items == SegmentText(t, 0)
              session_id == Len(items) + 1
          IN  /\ sessions = [s \in {session_id} |->
                                NewSession(items, <<"notes", "txt">>)]
              /\ uuid_count = session_id
              /\ served = [s \in {session_id} |-> <<>>]
    /\ pc = [t \in Threads |-> "idle"]
    /\ loc = [t \in Threads |-> Idle]
    /\ last = NoResponse
    /\ text = <<>>
    /\ study_items = <<>>
    /\ InitStorage

\* a /submit for an item of the session, with its time_taken
score_timed ==
    \E sid \in DOMAIN sessions : \E k \in 1..Len(sessions[sid].items) :
        \E answer \in ScoreAnswers(sessions[sid].items[k].content) :
            \E time \in ScoreTimes :
                submit_answer(1, sid, [item_id |-> sessions[sid].items[k].id,
                                       answer |-> answer, time_taken |-> time])

\* a /submit for an item of the session, without time_taken
score_untimed ==
    \E sid \in DOMAIN sessions : \E k \in 1..Len(sessions[sid].items) :
        \E answer \in ScoreAnswers(sessions[sid].items[k].content) :
            submit_answer(1, sid, [item_id |-> sessions[sid].items[k].id,
                                   answer |-> answer])

NextScore == score_timed \/ score_untimed

SpecScore == InitScore /\ [][NextScore]_vars

-----------------------------------------------------------------------------
(* The recording of practice sessions, services/statsStorage.js *)

MaxRecords == 22
MaxSwitches == 1
MaxNow == 9
TicksPerDay == 2

HistoryLimit == 20
SecondsPerMinute == 60

\* a + b of two quotients
AddRatio(a, b) ==
    IF a.den = b.den THEN Ratio(a.num + b.num, a.den)
    ELSE Ratio(a.num * b.den + b.num * a.den, a.den * b.den)

\* Date.prototype.toDateString: the calendar day of an instant, without its
\* time of day
toDateString(instant) == instant \div TicksPerDay

\* new Date(dateString): the instant at which that calendar day starts
DateOf(date_string) == date_string * TicksPerDay

\* the stats of a browser that has stored none; lastPracticeDate is null, the
\* empty sequence, or the sequence of one date string
DefaultStats ==
    [averageWpm |-> Ratio(0, 1), accuracy |-> Ratio(0, 1),
     practiceTime |-> Ratio(0, 1), currentStreak |-> 0,
     lastPracticeDate |-> <<>>, totalItems |-> 0]

\* JSON.parse(JSON.stringify(v)) is v for the numbers, strings, nulls, arrays
\* and objects stored here, so an item holds the value itself.
getStats ==
    IF localStorage[STORAGE_KEY] # NoItem THEN localStorage[STORAGE_KEY][1]
    ELSE DefaultStats

getSessions ==
    IF localStorage[SESSIONS_KEY] # NoItem THEN localStorage[SESSIONS_KEY][1]
    ELSE <<>>

\* a history that loses its newest entries
RetainOldest(stored) ==
    IF Len(stored) > HistoryLimit
    THEN SubSeq(stored, Len(stored) - HistoryLimit + 1, Len(stored))
    ELSE stored

\* if (sessions.length > 20) sessions.length = 20
Retain(stored) ==
    IF Len(stored) > HistoryLimit THEN SubSeq(stored, 1, HistoryLimit)
    ELSE stored

\* a mean over a full history, whatever is stored
MeanOfFull(values) == Ratio(SumSeq(values), HistoryLimit)

\* sessions.reduce((sum, s) => sum + s.field, 0) / totalSessions
Mean(values) == Ratio(SumSeq(values), Len(values))

\* an item count that takes a missing or zero count for one item
ItemsOrOne(session) ==
    IF "items" \in DOMAIN session /\ session.items # 0 THEN session.items ELSE 1

\* session.items || 0
ItemsOf(session) ==
    IF "items" \in DOMAIN session /\ session.items # 0 THEN session.items ELSE 0

\* a streak that grows with every session
StreakGrowing(stats, instant) == stats.currentStreak + 1

\* a streak that starts, and starts again after a gap, at nothing
StreakFromZero(stats, instant) ==
    LET today == toDateString(instant)
        lastDate == stats.lastPracticeDate
    IN  IF lastDate # <<>>
        THEN LET lastDay == toDateString(DateOf(lastDate[1]))
                 yesterdayString == toDateString(instant - TicksPerDay)
             IN  IF today = lastDay THEN stats.currentStreak
                 ELSE IF yesterdayString = lastDay THEN stats.currentStreak + 1
                 ELSE 0
        ELSE 0

\* the streak after a session at the instant, lines 65-88
Streak(stats, instant) ==
    LET today == toDateString(instant)
        lastDate == stats.lastPracticeDate
    IN  IF lastDate # <<>>
        THEN LET lastDay == toDateString(DateOf(lastDate[1]))
                 yesterdayString == toDateString(instant - TicksPerDay)
             IN  IF today = lastDay THEN stats.currentStreak
                 ELSE IF yesterdayString = lastDay THEN stats.currentStreak + 1
                 ELSE 1
        ELSE 1

\* the stats and the history recordSession(session) computes from the stats
\* and the history it has read, lines 49-91
RecordedFrom(stats, stored, session) ==
    LET kept == Retain(<<session>> \o stored)
        totalSessions == Len(kept)
    IN  [sessions |-> kept,
         stats |->
            IF totalSessions > 0
            THEN [averageWpm |-> Mean([i \in 1..Len(kept) |-> kept[i].wpm]),
                  accuracy |-> Mean([i \in 1..Len(kept) |-> kept[i].accuracy]),
                  practiceTime |->
                      AddRatio(stats.practiceTime,
                               Ratio(session.duration, SecondsPerMinute)),
                  totalItems |-> stats.totalItems + ItemsOf(session),
                  currentStreak |-> Streak(stats, now),
                  lastPracticeDate |-> <<toDateString(now)>>]
            ELSE stats]

\* the stats and the history recordSession(session) saves and returns
Recorded(session) == RecordedFrom(getStats, getSessions, session)

\* The summaries of practice sessions; recordSession does not read their date.
Summaries ==
    {[wpm |-> 50, accuracy |-> 90, duration |-> 120, items |-> 3],
     [wpm |-> 80, accuracy |-> 100, duration |-> 90, items |-> 0]}

\* the places of a sequence where an entry differs from the one before
Switches(seq) == Cardinality({i \in 2..Len(seq) : seq[i] # seq[i - 1]})

\* statsStorage.recordSession(session)
recordSession(session) ==
    /\ Len(recorded) < MaxRecords
    /\ Switches(Append(recorded, session)) <= MaxSwitches
    /\ localStorage' =
           [k \in {STORAGE_KEY, SESSIONS_KEY} |->
               IF k = STORAGE_KEY THEN <<Recorded(session).stats>>
               ELSE <<Recorded(session).sessions>>]
    /\ recorded' = Append(recorded, session)
    /\ UNCHANGED <<now, sessions, uuid_count, pc, loc, last, served, segVars,
                   clientVars>>

\* time passes
tick ==
    /\ now < MaxNow
    /\ now' = now + 1
    /\ UNCHANGED <<localStorage, recorded, sessions, uuid_count, pc, loc, last,
                   served, segVars, clientVars>>

NextStats == tick \/ \E session \in Summaries : recordSession(session)

SpecStats == Init /\ [][NextStats]_vars

\* Summaries with their date, the instant new Date().toISOString() names: the
\* instant of the call, one tick before it, or the same time a day earlier.
MaxDated == 3

DatedSummaries ==
    {[wpm |-> 50, accuracy |-> 90, duration |-> 120, items |-> 3, date |-> d] :
        d \in {d \in {now, now - 1, now - TicksPerDay} : d >= 0}}

\* recordSession for a summary that carries its date
record_dated ==
    /\ Len(recorded) < MaxDated
    /\ \E session \in DatedSummaries : recordSession(session)

NextDated == tick \/ record_dated

SpecDated == Init /\ [][NextDated]_vars

-----------------------------------------------------------------------------
(* recordSession in several pages over the one storage.  Each page runs its
   script alone, but the pages run side by side, and a page's reads and
   writes of localStorage are separate accesses with nothing holding the
   storage between them. *)

MaxPageCalls == 3

\* const stats = getStats(), line 46
record_read_stats(p, session) ==
    /\ tabs[p].pc = "idle"
    /\ Len(recorded) < MaxPageCalls
    /\ tabs' = [tabs EXCEPT ![p] =
                   [pc |-> "stats_read", session |-> session,
                    stats |-> getStats]]
    /\ recorded' = Append(recorded, session)
    /\ UNCHANGED <<localStorage, now, call, page, sessions, uuid_count, pc, loc,
                   last, served, segVars>>

\* const sessions = getSessions(), line 47
record_read_sessions(p) ==
    /\ tabs[p].pc = "stats_read"
    /\ tabs' = [tabs EXCEPT ![p] =
                   [pc |-> "sessions_read", session |-> tabs[p].session,
                    stats |-> tabs[p].stats, sessions |-> getSessions]]
    /\ UNCHANGED <<localStorage, now, recorded, call, page, sessions, uuid_count,
                   pc, loc, last, served, segVars>>

\* lines 49-91 on the page's own copies, and saveStats(stats), line 94
record_save_stats(p) ==
    /\ tabs[p].pc = "sessions_read"
    /\ LET computed == RecordedFrom(tabs[p].stats, tabs[p].sessions,
                                    tabs[p].session)
       IN  /\ localStorage' =
                  [localStorage EXCEPT ![STORAGE_KEY] = <<computed.stats>>]
           /\ tabs' = [tabs EXCEPT ![p] =
                          [pc |-> "stats_saved",
                           sessions |-> computed.sessions]]
    /\ UNCHANGED <<now, recorded, call, page, sessions, uuid_count, pc, loc,
                   last, served, segVars>>

\* saveSessions(sessions), line 95, and the return
record_save_sessions(p) ==
    /\ tabs[p].pc = "stats_saved"
    /\ localStorage' = [localStorage EXCEPT ![SESSIONS_KEY] = <<tabs[p].sessions>>]
    /\ tabs' = [tabs EXCEPT ![p] = NotRecording]
    /\ UNCHANGED <<now, recorded, call, page, sessions, uuid_count, pc, loc,
                   last, served, segVars>>

NextPages ==
    \E p \in Pages :
        \/ \E session \in Summaries : record_read_stats(p, session)
        \/ record_read_sessions(p)
        \/ record_save_stats(p)
        \/ record_save_sessions(p)

SpecPages == Init /\ [][NextPages]_vars

-----------------------------------------------------------------------------
(* The API client: getNextItem of services/api.js, whose requests pass the
   response interceptor of axiosInstance, and getNextItem of the client of
   unnamed/part_006, whose requests go through tryMultipleEndpoints.  One
   session, made by GET /api/quickstart, and one call at a time. *)

\* the base URLs tryMultipleEndpoints goes through; all three name the one
\* server on port 5002
EndpointCount == 3

\* what becomes of a request: answered in time, answered after the client's
\* timeout has passed, or not delivered to the server at all
Fates == {"answered", "timed_out", "unreachable"}

\* the error axios rejects with for a response whose status is not 2xx
StatusError(response) ==
    [message |-> "Request failed with status code",
     response |-> [status |-> response.status, data |-> response.body]]

\* the error axios rejects with when the timeout passes
TimeoutError == [message |-> "timeout exceeded", code |-> "ECONNABORTED"]

\* the error axios rejects with when no connection is made
NetworkError == [message |-> "Network Error"]

\* how axios settles a request that has met its fate
Settle(fate, response) ==
    IF fate = "unreachable" THEN [rejected |-> TRUE, error |-> NetworkError]
    ELSE IF fate = "timed_out" THEN [rejected |-> TRUE, error |-> TimeoutError]
    ELSE IF response.status \in 200..299
    THEN [rejected |-> FALSE, data |-> response.body]
    ELSE [rejected |-> TRUE, error |-> StatusError(response)]

\* the rejection handler of axiosInstance.interceptors.response, api.js 21-43:
\* the error it rejects with
Intercepted(error) ==
    IF error.message = "Network Error"
    THEN [message |-> "Server is unreachable."]
    ELSE IF "code" \in DOMAIN error /\ error.code = "ECONNABORTED"
    THEN [message |-> "Request timed out."]
    ELSE IF "response" \in DOMAIN error
            /\ "error" \in DOMAIN error.response.data
    THEN [message |-> error.response.data.error]
    ELSE error

\* the error tryMultipleEndpoints throws when every endpoint has failed
NoEndpointError == [message |-> "Could not connect to any backend endpoint."]

\* the catch clause of getNextItem: how the call ends for the error caught
Caught(error) ==
    IF "response" \in DOMAIN error /\ error.response.status = 400
    THEN [pc |-> "returned",
          value |-> [error |-> "No more items", session_completed |-> TRUE]]
    ELSE [pc |-> "thrown", error |-> error]

\* the call with its end filled in
Ended(answered, end) ==
    [k \in DOMAIN answered \cup DOMAIN end |->
        IF k \in DOMAIN end THEN end[k] ELSE answered[k]]

\* the call after one request of it has been settled; seen is the status of
\* the response the client has received, 0 when it has received none
Settled(settled, seen) ==
    LET answered == [call EXCEPT !.statuses = Append(@, seen)]
    IN  IF call.via = "interceptor"
        THEN \* api.js 137-149
             IF settled.rejected
             THEN Ended(answered, Caught(Intercepted(settled.error)))
             ELSE Ended(answered, [pc |-> "returned", value |-> settled.data])
        ELSE \* part_006 181-225 and 332-344
             IF settled.rejected
             THEN IF call.attempt < EndpointCount
                  THEN [answered EXCEPT !.pc = "attempt", !.attempt = @ + 1]
                  ELSE Ended(answered, Caught(NoEndpointError))
             ELSE Ended(answered, [pc |-> "returned", value |-> settled.data])

\* api.getNextItem(sessionId) is called
getNextItem(via, sid) ==
    /\ call.pc \in {"none", "returned", "thrown"}
    /\ \A t \in Threads : pc[t] = "idle"
    /\ call' = [pc |-> "attempt", via |-> via, sid |-> sid, attempt |-> 1,
                start |-> sessions[sid].current_index, statuses |-> <<>>]
    /\ last' = NoResponse
    /\ UNCHANGED <<sessions, uuid_count, pc, loc, served, segVars, localStorage,
                   now, recorded, tabs, page>>

\* a request of the call does not reach the server
request_undelivered ==
    /\ call.pc = "attempt"
    /\ call' = Settled(Settle("unreachable", NoResponse), 0)
    /\ last' = NoResponse
    /\ UNCHANGED <<sessions, uuid_count, pc, loc, served, segVars, localStorage,
                   now, recorded, tabs, page>>

\* a request of the call is on its way to the server
request_sent(fate) ==
    /\ call.pc = "attempt"
    /\ call' = [call EXCEPT !.pc = "sent"] @@ [fate |-> fate]
    /\ last' = NoResponse
    /\ UNCHANGED <<sessions, uuid_count, pc, loc, served, segVars, localStorage,
                   now, recorded, tabs, page>>

\* the server takes the request up
request_handled ==
    /\ call.pc = "sent"
    /\ last = NoResponse
    /\ get_next_item(1, call.sid)

\* the request is settled: by the server's response, or by the timeout that
\* has passed before it
request_settled ==
    /\ call.pc = "sent"
    /\ last.op = "next"
    /\ \A t \in Threads : pc[t] = "idle"
    /\ LET seen == IF call.fate = "answered" THEN last.status ELSE 0
           after == Settled(Settle(call.fate, last), seen)
       IN  call' = [k \in DOMAIN after \ {"fate"} |-> after[k]]
    /\ last' = NoResponse
    /\ UNCHANGED <<sessions, uuid_count, pc, loc, served, segVars, localStorage,
                   now, recorded, tabs, page>>

NextApi ==
    \/ quickstart(1, MaxSharedSessions)
    \/ \E via \in {"interceptor", "endpoints"} : \E sid \in DOMAIN sessions :
           getNextItem(via, sid)
    \/ request_undelivered
    \/ \E fate \in Fates \ {"unreachable"} : request_sent(fate)
    \/ request_handled
    \/ next_item(1)
    \/ next_load(1)
    \/ next_store(1)
    \/ next_resp(1)
    \/ request_settled

SpecApi == Init /\ [][NextApi]_vars

-----------------------------------------------------------------------------
(* The practice page, pages/PracticePage.js: the component from its mount to
   the end of its initialization effect.  sessionData is the session id the
   home page has got from GET /api/quickstart, or UnknownId for null. *)

\* the state and the refs of a component that has just been rendered for the
\* first time, lines 22-40; its effects have not run yet
Mounted(session_id) ==
    [mounted |-> TRUE, session_id |-> session_id,
     currentItem |-> <<>>, loading |-> TRUE, error |-> <<>>,
     showDebug |-> FALSE,
     sessionProcessed |-> FALSE, isUnmounted |-> FALSE, isLoadingRef |-> TRUE,
     effect |-> "pending", requests |-> 0, awaiting |-> FALSE]

\* loadNextItem(), lines 89-104: the component as the call leaves it when it
\* returns or reaches its await.  What follows the await is not part of the
\* model.
loadNextItem(p) ==
    IF p.isLoadingRef \/ p.session_id = UnknownId
    THEN p
    ELSE [p EXCEPT !.isLoadingRef = TRUE,
                   !.loading = IF p.isUnmounted THEN @ ELSE TRUE,
                   !.error = IF p.isUnmounted THEN @ ELSE <<>>,
                   !.requests = @ + 1,
                   !.awaiting = TRUE]

\* the router renders <PracticePage sessionData={sessionData} />
mount(session_id) ==
    /\ ~page.mounted
    /\ \A t \in Threads : pc[t] = "idle"
    /\ page' = Mounted(session_id)
    /\ UNCHANGED <<sessions, uuid_count, pc, loc, last, served, segVars,
                   localStorage, now, recorded, tabs, call>>

\* the initialization effect, lines 156-187
init_effect ==
    /\ page.mounted /\ page.effect = "pending"
    /\ page' =
           IF page.session_id = UnknownId
           THEN \* navigate('/'): the page is left, and the cleanups run
                NotMounted
           ELSE loadNextItem([page EXCEPT !.effect = "run",
                                          !.isUnmounted = FALSE,
                                          !.sessionProcessed = FALSE])
    /\ UNCHANGED <<sessions, uuid_count, pc, loc, last, served, segVars,
                   localStorage, now, recorded, tabs, call>>

\* the button Show Debug Info, or Ctrl+Shift+D
toggle_debug ==
    /\ page.mounted /\ page.effect = "run"
    /\ page' = [page EXCEPT !.showDebug = ~@]
    /\ UNCHANGED <<sessions, uuid_count, pc, loc, last, served, segVars,
                   localStorage, now, recorded, tabs, call>>

\* the user goes to another route: the component is unmounted
unmount ==
    /\ page.mounted /\ page.effect = "run"
    /\ page' = NotMounted
    /\ UNCHANGED <<sessions, uuid_count, pc, loc, last, served, segVars,
                   localStorage, now, recorded, tabs, call>>

NextPage ==
    \/ quickstart(1, MaxSessions)
    \/ \E session_id \in SessionIdArgs : mount(session_id)
    \/ init_effect
    \/ toggle_debug
    \/ unmount
    \/ tick

\* React runs the effects of a component it has rendered.
SpecPage == Init /\ [][NextPage]_vars /\ WF_vars(init_effect)

-----------------------------------------------------------------------------
(* Properties *)

\* the /next responses of session sid that carried an item
ServedOk(sid) == SelectSeq(served[sid], LAMBDA r : r.status = 200)

\* C1: with one caller at a time, the k-th /next call of a session of n items
\* succeeds for k <= n, returns the k-th item with progress current = k and
\* total = n, and every call after the n-th answers that the session has no
\* more items.
C1_NextItemInOrder ==
    /\ \A sid \in DOMAIN sessions :
          LET n == Len(sessions[sid].items) IN
          \A k \in 1..Len(served[sid]) :
              IF k <= n
              THEN /\ served[sid][k].status = 200
                   /\ served[sid][k].item_id = sessions[sid].items[k].id
                   /\ served[sid][k].current = k
                   /\ served[sid][k].total = n
              ELSE served[sid][k].status = 400
    /\ (last.op = "next" /\ last.status = 200) =>
          /\ last.body.progress.current \in 1..Len(sessions[last.sid].items)
          /\ last.body.item = sessions[last.sid].items[last.body.progress.current]
          /\ last.body.progress.total = Len(sessions[last.sid].items)
    /\ (last.op = "next" /\ last.status = 400) =>
          last.body = [error |-> "No more items in session",
                       session_completed |-> TRUE]

\* a session of three items all served in turn, and one call more
C1_Witness ==
    \E sid \in DOMAIN sessions :
        /\ Len(sessions[sid].items) = 3
        /\ Len(served[sid]) = 4
        /\ last.op = "next" /\ last.sid = sid /\ last.status = 400

\* C2 as stated: of two /next requests in flight on one session no two are
\* given the same item and none is passed over: the items handed out are the
\* session's items in order, each once.
C2_NoItemTwiceNoneSkipped ==
    \A sid \in DOMAIN sessions :
        \A k \in 1..Len(ServedOk(sid)) :
            /\ k <= Len(sessions[sid].items)
            /\ ServedOk(sid)[k].item_id = sessions[sid].items[k].id

\* C3 as stated: in every state the threaded server reaches, current_index of
\* every session lies between 0 and total_items.
C3_IndexInRange ==
    \A sid \in DOMAIN sessions :
        /\ 0 <= sessions[sid].current_index
        /\ sessions[sid].current_index <= sessions[sid].total_items

\* C4: a /submit request leaves every session as it was, whether it is scored,
\* names an item the session does not hold, or lacks a field.
C4_SubmitLeavesSessions ==
    [][last'.op = "submit" =>
          /\ sessions' = sessions
          /\ served' = served
          /\ last'.status \in {200, 400, 404}]_vars

\* an answer scored for a session that has already moved on
C4_Witness ==
    /\ last.op = "submit" /\ last.status = 200
    /\ last.sid \in DOMAIN sessions
    /\ sessions[last.sid].current_index > 0
    /\ last.body.progress.current = sessions[last.sid].current_index

\* C5 as stated: current_index never decreases, changes only in the store of
\* a /next request that returns an item, and once it equals total_items it
\* stays there and a /next request made then is answered with "no more items".
C5_IndexMonotonic ==
    [][\A sid \in DOMAIN sessions :
          /\ sid \in DOMAIN sessions'
          /\ sessions'[sid].current_index >= sessions[sid].current_index
          /\ sessions'[sid].current_index # sessions[sid].current_index =>
                \E t \in Threads :
                    /\ pc[t] = "next_store" /\ loc[t].sid = sid
                    /\ pc'[t] = "next_resp"
          /\ sessions[sid].current_index = sessions[sid].total_items =>
                /\ sessions'[sid] = sessions[sid]
                /\ (pc' = pc /\ last'.op = "next" /\ last'.sid = sid) =>
                       /\ last'.status = 400
                       /\ last'.body.session_completed]_vars

\* C6: /next, /submit and the session read with an id the table does not hold
\* answer 404 "Session not found", whatever the body posted, and leave the
\* table as it was.
C6_UnknownSession ==
    [][(last'.op \in {"next", "submit", "session"}
            /\ last'.sid \notin DOMAIN sessions) =>
          /\ last'.status = 404
          /\ last'.body = [error |-> "Session not found"]
          /\ sessions' = sessions
          /\ served' = served]_vars

\* a /submit without its fields on an unknown id, beside a stored session
C6_Witness ==
    /\ last.op = "submit" /\ last.sid \notin DOMAIN sessions
    /\ "item_id" \notin DOMAIN last.args
    /\ last.status = 404
    /\ DOMAIN sessions # {}

\* C7: a /submit on a stored session whose item_id is not the id of one of
\* that session's items answers 404 "Item not found" with no result, and
\* leaves the sessions as they were.
C7_UnknownItem ==
    [][(/\ last'.op = "submit"
        /\ last'.sid \in DOMAIN sessions
        /\ {"answer", "item_id"} \subseteq DOMAIN last'.args
        /\ \A k \in 1..Len(sessions[last'.sid].items) :
               sessions[last'.sid].items[k].id # last'.args.item_id) =>
          /\ last'.status = 404
          /\ last'.body = [error |-> "Item not found"]
          /\ sessions' = sessions]_vars

\* a /submit that names an item of another session
C7_Witness ==
    /\ last.op = "submit" /\ last.sid \in DOMAIN sessions
    /\ "item_id" \in DOMAIN last.args
    /\ last.args.item_id \in ItemIds
    /\ last.status = 404
    /\ last.body = [error |-> "Item not found"]

\* C8: a session comes into the table only by an upload or a quickstart; it
\* is stored under an id the table did not hold, with current_index 0,
\* total_items the number of its items and at least one item, and the
\* sessions already stored stay as they were.
C8_SessionCreation ==
    [][/\ DOMAIN sessions' # DOMAIN sessions =>
              last'.op \in {"upload", "quickstart"} /\ last'.status = 200
       /\ (last'.op \in {"upload", "quickstart"} /\ last'.status = 200) =>
              /\ last'.sid \notin DOMAIN sessions
              /\ DOMAIN sessions' = DOMAIN sessions \cup {last'.sid}
              /\ sessions'[last'.sid].current_index = 0
              /\ sessions'[last'.sid].total_items
                     = Len(sessions'[last'.sid].items)
              /\ sessions'[last'.sid].items # <<>>
              /\ last'.body.session_id = last'.sid
              /\ last'.body.items_count = Len(sessions'[last'.sid].items)
              /\ \A s \in DOMAIN sessions : sessions'[s] = sessions[s]]_vars

\* an upload stored beside a session that has already moved on
C8_Witness ==
    /\ last.op = "upload" /\ last.status = 200
    /\ \E s \in DOMAIN sessions :
           s # last.sid /\ sessions[s].current_index > 0

\* C9 as stated: a non-empty text is cut into at least one item and no item's
\* content, truncation marker included, is longer than the maximum.
C9_ContentWithinMaximum ==
    (pc[1] = "truncated" /\ text # <<>>) =>
        /\ Len(study_items) >= 1
        /\ \A k \in 1..Len(study_items) :
               TLen(study_items[k].content) <= MaxContentLength

\* C9, amended: a non-empty text is cut into at least one item and no item's
\* content is longer than the maximum and the truncation marker together; a
\* content longer than the maximum is a truncated one, its first
\* TruncatedLength characters followed by the marker.
C9_ContentWithinMaximumAndMarker ==
    (pc[1] = "truncated" /\ text # <<>>) =>
        /\ Len(study_items) >= 1
        /\ \A k \in 1..Len(study_items) :
               /\ TLen(study_items[k].content)
                      <= MaxContentLength + TLen(TruncationMarker)
               /\ TLen(study_items[k].content) > MaxContentLength =>
                      /\ TLen(study_items[k].content)
                             = TruncatedLength + TLen(TruncationMarker)
                      /\ study_items[k].content
                             = Concat(Take(study_items[k].content,
                                           TruncatedLength), TruncationMarker)

\* a text cut into several items, one of them truncated
C9_Witness ==
    /\ pc[1] = "truncated" /\ text # <<>>
    /\ Len(study_items) > 1
    /\ \E k \in 1..Len(study_items) :
           TLen(study_items[k].content) > MaxContentLength

\* C10 as stated: every item of every stored session has a non-empty content,
\* whatever text was uploaded.
C10_ContentNonEmpty ==
    \A sid \in DOMAIN sessions :
        \A k \in 1..Len(sessions[sid].items) :
            sessions[sid].items[k].content # <<>>

\* the items made of paragraphs, by their prompt "Type this paragraph (i/n):"
ParagraphItemsOf(items) == SelectSeq(items, LAMBDA it : Len(it.prompt) = 5)

\* the content an item carries for a paragraph p (C9: cut when too long)
ItemContentOf(p) ==
    IF TLen(p) > MaxContentLength
    THEN Concat(Take(p, TruncatedLength), TruncationMarker)
    ELSE p

\* the paragraphs of ps longer than the minimum, in order
QualifyingOf(ps) == SelectSeq(ps, LAMBDA p : TLen(p) > MinParagraphLength)

\* C11 as stated: for a text at or above the short-text threshold the items of
\* paragraphs are, in order, the first min(q, MaxParagraphs) of the q
\* paragraphs longer than the minimum.
C11_FirstQualifyingParagraphs ==
    (pc[1] = "truncated" /\ TLen(text) >= ShortTextLength) =>
        LET q == QualifyingOf(paragraphs(text))
            emitted == ParagraphItemsOf(study_items)
        IN  /\ Len(emitted) = Min(Len(q), MaxParagraphs)
            /\ \A k \in 1..Len(emitted) :
                   emitted[k].content = ItemContentOf(q[k])

\* C11, amended: for a text at or above the short-text threshold the items of
\* paragraphs are, in order, the paragraphs longer than the minimum among the
\* first MaxParagraphs paragraphs of the text: a qualifying paragraph is left
\* out only when MaxParagraphs paragraphs, qualifying or not, precede it.
C11_QualifyingAmongFirstParagraphs ==
    (pc[1] = "truncated" /\ TLen(text) >= ShortTextLength) =>
        LET ps == paragraphs(text)
            q == QualifyingOf(SubSeq(ps, 1, Min(Len(ps), MaxParagraphs)))
            emitted == ParagraphItemsOf(study_items)
        IN  /\ Len(emitted) = Len(q)
            /\ \A k \in 1..Len(emitted) :
                   emitted[k].content = ItemContentOf(q[k])

\* more than MaxParagraphs paragraphs, a long one among the first and a long
\* one after them
C11_Witness ==
    /\ pc[1] = "truncated" /\ TLen(text) >= ShortTextLength
    /\ Len(paragraphs(text)) > MaxParagraphs
    /\ TLen(paragraphs(text)[MaxParagraphs + 1]) > MinParagraphLength
    /\ Len(ParagraphItemsOf(study_items)) = 1

\* C12 as stated: for a text at or above the short-text threshold none of
\* whose paragraphs is longer than the minimum, there is exactly one item and
\* its content is the first MaxContentLength characters of the text.
C12_FallbackFirstCharacters ==
    (/\ pc[1] = "truncated" /\ TLen(text) >= ShortTextLength
     /\ QualifyingOf(paragraphs(text)) = <<>>) =>
        /\ Len(study_items) = 1
        /\ study_items[1].content = Take(text, MaxContentLength)

\* C12, amended: for such a text there is exactly one item; its content is the
\* text itself when the text has at most MaxContentLength characters, and
\* otherwise the first MaxContentLength characters of the text followed by
\* the truncation marker.
C12_FallbackFirstCharactersAndMarker ==
    (/\ pc[1] = "truncated" /\ TLen(text) >= ShortTextLength
     /\ QualifyingOf(paragraphs(text)) = <<>>) =>
        /\ Len(study_items) = 1
        /\ study_items[1].content =
               IF TLen(text) <= MaxContentLength THEN text
               ELSE Concat(Take(text, MaxContentLength), TruncationMarker)

\* a text of more than MaxContentLength characters with a paragraph, none
\* longer than the minimum
C12_Witness ==
    /\ pc[1] = "truncated" /\ TLen(text) > MaxContentLength
    /\ paragraphs(text) # <<>>
    /\ QualifyingOf(paragraphs(text)) = <<>>
    /\ Len(study_items) = 1
    /\ TLen(study_items[1].content) > MaxContentLength

\* A scored answer: the response, the content of the item it names, the text
\* typed and the time used.
IsScored == last.op = "submit" /\ last.status = 200

ScoredExpected ==
    LET items == sessions[last.sid].items
    IN  items[CHOOSE k \in 1..Len(items) : items[k].id = last.args.item_id].content

ScoredTyped == last.args.answer

ScoredTime ==
    IF "time_taken" \in DOMAIN last.args THEN last.args.time_taken
    ELSE DefaultTimeTaken

\* the character of t at position p, counted from 1
CharAt(t, p) ==
    t[CHOOSE i \in 1..Len(t) : Start(t, i) < p /\ p <= t[i].end].ch

\* the positions up to L at which expected and typed agree
Agreeing(expected, typed, L) ==
    Cardinality({p \in 1..L : CharAt(expected, p) = CharAt(typed, p)})

\* matches / max(L, 1) with L = min(len(expected), len(typed), CompareLimit)
StatedAccuracy(expected, typed) ==
    LET L == Min(Min(TLen(expected), TLen(typed)), CompareLimit)
    IN  IF expected = <<>> THEN Ratio(0, 1)
        ELSE Ratio(Agreeing(expected, typed, L), Max(L, 1))

\* the whitespace-delimited words of t, counted at their first characters
StatedWords(t) ==
    Cardinality({p \in 1..TLen(t) :
        /\ CharAt(t, p) \notin Whitespace
        /\ (p = 1 \/ CharAt(t, p - 1) \in Whitespace)})

SameRatio(a, b) == a.num * b.den = b.num * a.den

\* C13 as stated: an answer identical to the expected text is scored with
\* accuracy exactly 1, for every expected text and every time above 0.
C13_IdenticalAnswerAccuracyOne ==
    (IsScored /\ ScoredTyped = ScoredExpected /\ ScoredTime > 0) =>
        SameRatio(last.body.result.accuracy, Ratio(1, 1))

\* C14: the accuracy returned is matches / max(L, 1), L the least of the two
\* lengths and CompareLimit, matches the positions up to L where the texts
\* agree, and 0 for an empty expected text; what is typed beyond the length
\* of the expected text does not change it.
C14_AccuracyFormula ==
    IsScored =>
        /\ last.body.result.accuracy.den > 0
        /\ SameRatio(last.body.result.accuracy,
                     StatedAccuracy(ScoredExpected, ScoredTyped))
        /\ TLen(ScoredTyped) > TLen(ScoredExpected) =>
               SameRatio(last.body.result.accuracy,
                         StatedAccuracy(ScoredExpected,
                                        Take(ScoredTyped, TLen(ScoredExpected))))

\* an answer longer than the expected text that agrees with it in part
C14_Witness ==
    /\ IsScored
    /\ TLen(ScoredTyped) > TLen(ScoredExpected)
    /\ TLen(ScoredExpected) > CompareLimit
    /\ last.body.result.accuracy.num > 0
    /\ last.body.result.accuracy.num < last.body.result.accuracy.den

\* C15: every result has an accuracy from 0 to 1 and a wpm of at least 0,
\* whatever the expected text, the text typed and the time, zero and
\* negative times included.
C15_ResultRanges ==
    IsScored =>
        /\ last.body.result.accuracy.den > 0
        /\ 0 <= last.body.result.accuracy.num
        /\ last.body.result.accuracy.num <= last.body.result.accuracy.den
        /\ last.body.result.wpm.den > 0
        /\ 0 <= last.body.result.wpm.num

\* an answer scored with a negative time for a text that has words
C15_Witness ==
    /\ IsScored /\ ScoredTime < 0
    /\ StatedWords(ScoredExpected) > 0
    /\ last.body.result.accuracy.num = last.body.result.accuracy.den

\* C16: the wpm returned is 0 when the time is 0 or less, and otherwise the
\* words of the expected text divided by the seconds, times 60; the text
\* typed plays no part in it.
C16_WpmFormula ==
    IsScored =>
        /\ last.body.result.wpm.den > 0
        /\ IF ScoredTime <= 0
           THEN last.body.result.wpm.num = 0
           ELSE SameRatio(last.body.result.wpm,
                          Ratio(StatedWords(ScoredExpected) * 60, ScoredTime))

\* nothing typed in 45 seconds for a text of three words
C16_Witness ==
    /\ IsScored /\ ScoredTime = 45 /\ ScoredTyped = <<>>
    /\ StatedWords(ScoredExpected) = 3
    /\ SameRatio(last.body.result.wpm, Ratio(4, 1))

\* the summaries of the stored history that the latest calls of recordSession
\* were given, newest first
MostRecent(count) ==
    [i \in 1..count |-> recorded[Len(recorded) - i + 1]]

\* the smaller of two numbers
Smaller(a, b) == IF a <= b THEN a ELSE b

\* C17: after any number of recordSession calls the stored history holds at
\* most 20 summaries, newest first, and they are exactly the min(k, 20) most
\* recent of the k summaries recorded.
C17_HistoryMostRecent ==
    /\ Len(getSessions) <= HistoryLimit
    /\ getSessions = MostRecent(Smaller(Len(recorded), HistoryLimit))

\* more than 20 summaries were recorded, and the oldest, which was dropped,
\* differs from the ones kept
C17_Witness ==
    /\ Len(recorded) > HistoryLimit
    /\ Len(getSessions) = HistoryLimit
    /\ recorded[1] # getSessions[HistoryLimit]

\* the sum of one field over the latest summaries recorded
RecentSum(count, field) ==
    SumSeq([i \in 1..count |-> MostRecent(count)[i][field]])

\* C18: after every recordSession the stored averageWpm and accuracy are the
\* arithmetic means of the wpm and the accuracy of exactly the summaries the
\* history retains; after the first call on an empty storage they are the
\* values of that one summary.
C18_MeansOverRetained ==
    LET retained == Smaller(Len(recorded), HistoryLimit)
    IN  Len(recorded) >= 1 =>
            /\ localStorage[STORAGE_KEY] # NoItem
            /\ getStats.averageWpm.den > 0 /\ getStats.accuracy.den > 0
            /\ SameRatio(getStats.averageWpm,
                         Ratio(RecentSum(retained, "wpm"), retained))
            /\ SameRatio(getStats.accuracy,
                         Ratio(RecentSum(retained, "accuracy"), retained))
            /\ Len(recorded) = 1 =>
                   /\ SameRatio(getStats.averageWpm, Ratio(recorded[1].wpm, 1))
                   /\ SameRatio(getStats.accuracy,
                                Ratio(recorded[1].accuracy, 1))

\* more than 20 summaries were recorded and the averages are those of the 20
\* retained, not of all of them
C18_Witness ==
    /\ Len(recorded) > HistoryLimit
    /\ recorded[1].wpm # recorded[Len(recorded)].wpm
    /\ ~SameRatio(getStats.averageWpm,
                  Ratio(SumSeq([i \in 1..Len(recorded) |-> recorded[i].wpm]),
                        Len(recorded)))

\* C19: practiceTime and totalItems are cumulative: they are the sum of
\* duration / 60 and the sum of the item counts over all the summaries ever
\* recorded, also once the history has dropped some of them.
C19_TotalsCumulative ==
    /\ getStats.practiceTime.den > 0
    /\ SameRatio(getStats.practiceTime,
                 Ratio(RecentSum(Len(recorded), "duration"), SecondsPerMinute))
    /\ getStats.totalItems = RecentSum(Len(recorded), "items")

\* more than 20 summaries were recorded, and the totals exceed what the
\* retained history adds up to
C19_Witness ==
    /\ Len(recorded) > HistoryLimit
    /\ getStats.totalItems > RecentSum(HistoryLimit, "items")
    /\ getStats.practiceTime.num * SecondsPerMinute
           > RecentSum(HistoryLimit, "duration") * getStats.practiceTime.den

\* the calendar day of the clock
Today == now \div TicksPerDay

\* C20: a call of recordSession leaves the streak unchanged when the last
\* practice date is today, adds 1 to it when that date is exactly one
\* calendar day before today, and sets it to 1 when the gap is larger or no
\* date is stored; it stores today as the last practice date.
C20_StreakByCalendarDays ==
    [][recorded' # recorded =>
        LET before == getStats
            after == getStats'
            lastDate == before.lastPracticeDate
        IN  /\ after.lastPracticeDate = <<Today>>
            /\ lastDate = <<>> => after.currentStreak = 1
            /\ lastDate # <<>> =>
                   /\ lastDate[1] = Today =>
                          after.currentStreak = before.currentStreak
                   /\ lastDate[1] = Today - 1 =>
                          after.currentStreak = before.currentStreak + 1
                   /\ lastDate[1] < Today - 1 => after.currentStreak = 1]_vars

\* sessions on two consecutive days have given a streak of 2
C20_Witness ==
    /\ Len(recorded) = 2
    /\ getStats.currentStreak = 2
    /\ getStats.lastPracticeDate = <<1>>

\* C21: the day recordSession compares with the stored last practice date, and
\* stores as the new one, is the calendar day of the summary's date field,
\* also when the summary is recorded on a later day.
C21_StreakByDateOfSummary ==
    [][recorded' # recorded =>
        LET session == recorded'[Len(recorded')]
            day == toDateString(session.date)
            before == getStats
            after == getStats'
            lastDate == before.lastPracticeDate
        IN  /\ after.lastPracticeDate = <<day>>
            /\ after.currentStreak =
                   IF lastDate = <<>> THEN 1
                   ELSE IF lastDate[1] = day THEN before.currentStreak
                   ELSE IF lastDate[1] = day - 1 THEN before.currentStreak + 1
                   ELSE 1]_vars

\* C22: recordSession is one atomic read-modify-write of the stored stats and
\* history: once the calls of all pages have returned, the history holds
\* every summary recorded and the totals include every one of them.
C22_NoUpdateLost ==
    (\A p \in Pages : tabs[p].pc = "idle") =>
        /\ Len(getSessions) = Len(recorded)
        /\ \A i \in 1..Len(recorded) :
               \E j \in 1..Len(getSessions) : getSessions[j] = recorded[i]
        /\ getStats.totalItems = RecentSum(Len(recorded), "items")
        /\ SameRatio(getStats.practiceTime,
                     Ratio(RecentSum(Len(recorded), "duration"),
                           SecondsPerMinute))

\* the sessions the step from this state to the next works on: that of the
\* thread that moves
ActingOn ==
    {loc[t].sid : t \in {u \in Threads : pc[u] # "idle" /\ pc'[u] # pc[u]}}
        \cup {loc'[t].sid : t \in {u \in Threads : pc[u] = "idle"
                                                     /\ pc'[u] # "idle"}}
        \cup {last'.sid : r \in {x \in {last'} : x.op # "none"}}

\* a /next request on the session could be made without passing the number
\* of requests the model allows it
WithinCalls(sid) ==
    Len(served[sid]) + NextInFlight(sid)
        < sessions[sid].total_items + MaxExtraCalls

\* C23: a /next or /submit request on one session leaves every other session
\* of the table as it was, and is taken up and moves on while a request on
\* another session is being handled.
C23_SessionsIndependent ==
    /\ [][\A other \in DOMAIN sessions :
              other \notin ActingOn =>
                  /\ sessions'[other] = sessions[other]
                  /\ served'[other] = served[other]]_vars
    /\ [](\A sid \in DOMAIN sessions :
              (/\ \E t \in Threads : pc[t] = "idle"
               /\ \E u \in Threads : pc[u] # "idle" /\ loc[u].sid # sid) =>
                  /\ WithinCalls(sid) =>
                         \E t \in Threads : ENABLED get_next_item(t, sid)
                  /\ \E t \in Threads : \E data \in FullBodies :
                         ENABLED submit_answer(t, sid, data))

\* a /next on one session has been answered with an item while a /next on the
\* other session is between the read and the write of its index
C23_Witness ==
    /\ last.op = "next" /\ last.status = 200
    /\ \E u \in Threads :
           /\ pc[u] = "next_store"
           /\ loc[u].sid # last.sid
           /\ sessions[loc[u].sid].current_index = 1
    /\ sessions[last.sid].current_index = 2

\* the api.getNextItem call has returned or thrown
CallEnded == call.pc \in {"returned", "thrown"}

\* C24: when the server has answered a request of a getNextItem call with
\* 400, no more items in the session, the call returns a value with
\* session_completed true, and does not throw.
C24_ExhaustedIsReturned ==
    (CallEnded /\ \E i \in 1..Len(call.statuses) : call.statuses[i] = 400) =>
        /\ call.pc = "returned"
        /\ "session_completed" \in DOMAIN call.value
        /\ call.value.session_completed = TRUE

\* C28: one getNextItem call moves the session of the server on by one item
\* at most, whatever becomes of the requests it sends.
C28_OneAdvancePerCall ==
    call.pc # "none" =>
        sessions[call.sid].current_index <= call.start + 1

\* C25: a PracticePage mounted with the id of a session sends, in the end, a
\* request for the next item (after which it can show the item the server
\* answers with), unless it is unmounted first.
C25_MountedPageRequestsItem ==
    (page.mounted /\ page.session_id # UnknownId)
        ~> (~page.mounted \/ page.requests > 0)

\* the /submit answered in the step names, with an answer, an item of its
\* session
SubmitsItemOfSession ==
    /\ last'.op = "submit"
    /\ last'.sid \in DOMAIN sessions
    /\ "answer" \in DOMAIN last'.args
    /\ "item_id" \in DOMAIN last'.args
    /\ \E k \in 1..Len(sessions[last'.sid].items) :
           sessions[last'.sid].items[k].id = last'.args.item_id

\* C27: a /submit for any item of the session is scored whatever the
\* session's current_index is, also for the last item once current_index has
\* reached total_items; the progress it returns is the session's
\* current_index and total_items, and the session is left as it was.
C27_SubmitAtAnyIndex ==
    [][SubmitsItemOfSession =>
          /\ last'.status = 200
          /\ last'.body.result.item_id = last'.args.item_id
          /\ last'.body.progress =
                 [current |-> sessions[last'.sid].current_index,
                  total |-> sessions[last'.sid].total_items]
          /\ sessions' = sessions]_vars

\* the last item of a session is scored after the session has served all of
\* its items, and an item is scored before the session has served it
C27_Witness ==
    /\ IsScored
    /\ LET session == sessions[last.sid]
       IN  /\ session.total_items > 1
           /\ session.current_index = session.total_items
           /\ session.items[session.total_items].id = last.args.item_id
           /\ last.body.progress.current = session.total_items

\* C29: every call of recordSession, from the default stats on, leaves a
\* streak of 1 or more and a last practice date, and raises the streak by 1
\* at most.
C29_StreakAtLeastOne ==
    [][recorded' # recorded =>
          /\ getStats'.currentStreak >= 1
          /\ getStats'.lastPracticeDate # <<>>
          /\ getStats'.currentStreak <= getStats.currentStreak + 1]_vars

\* sessions recorded on three consecutive days have raised the streak, one
\* at a time, to 3
C29_Witness ==
    /\ Len(recorded) = 3
    /\ getStats.currentStreak = 3
    /\ getStats.lastPracticeDate = <<2>>
    /\ Today = 2

\* C30: a typed text that is a correct, non-empty prefix of a non-empty
\* expected text, were it one character long, is scored with accuracy 1.
C30_CorrectPrefixAccuracyOne ==
    (/\ IsScored
     /\ ScoredExpected # <<>>
     /\ ScoredTyped # <<>>
     /\ TLen(ScoredTyped) <= TLen(ScoredExpected)
     /\ ScoredTyped = Take(ScoredExpected, TLen(ScoredTyped))) =>
        SameRatio(last.body.result.accuracy, Ratio(1, 1))

\* the first character alone of a longer expected text is scored 1
C30_Witness ==
    /\ IsScored
    /\ TLen(ScoredTyped) = 1
    /\ TLen(ScoredExpected) > 1
    /\ ScoredTyped = Take(ScoredExpected, 1)
    /\ last.body.result.accuracy = Ratio(1, 1)

=============================================================================
